---- MODULE Spec2Model ----
(***************************************************************************)
(* The hashchain engine of HashChainFrontend (utils/hashchainTools):       *)
(* generation of a hashchain, position/token arithmetic and verification   *)
(* against a trust anchor, with the handlers of the HashchainTools and     *)
(* VerifyHashchain screens that use them, the Quick Hash Lookup panel and  *)
(* the isLoading flag the tabs of HashChain share.                         *)
(*                                                                         *)
(* A hex string is modelled by the bytes it denotes and by its spelling:   *)
(*   root, depth : the 32 bytes, written symbolically as keccak256         *)
(*                 applied depth times to a value that is the hash of      *)
(*                 nothing known (the usual symbolic model of a            *)
(*                 collision-free, cycle-free one-way hash);               *)
(*   form        : "lower" for lowercase hex digits (what viem prints),    *)
(*                 "upper" for the same bytes typed with capital digits.   *)
(* JavaScript's === on strings is equality of these records.               *)
(***************************************************************************)
EXTENDS Integers, Sequences, FiniteSets, TLC

VARIABLES hashchainData, last,
          isMounted, lookup,
          activeTab, isLoading, isPending, calls

vars == <<hashchainData, last, isMounted, lookup, activeTab, isLoading, isPending, calls>>

(* the state of the screens, which a plain call of a hashchainTools       *)
(* function does not touch                                                 *)
uiVars == <<isMounted, lookup, activeTab, isLoading, isPending, calls>>

----------------------------------------------------------------------------
(* Bounds of the model *)

MaxLen == 3          \* longest chain requested
NumRoots == 2        \* number of unrelated 32-byte values
MaxDepth == 3        \* depth of the hash typed in as testHash / trustAnchor
MaxCount == 3        \* largest numberOfHashes / maxHashes typed in

(* maxHashes: number = 1000 *)
DefaultMaxHashes == 1000

(* if (length > 10000) in validateHashchainParams *)
MaxPolicyLength == 10000

(* seed.length !== 66: "0x" and 64 digits *)
HashValueLength == 66

(* generateRandomTokens(hashchainData.length - 1, 7) *)
QuickLookupCount == 7

Roots == 0 .. (NumRoots - 1)

Hex(form, root, depth) == [form |-> form, root |-> root, depth |-> depth]

(* seed?: string left out by the caller *)
undefined == [form |-> "undefined"]

(* the empty string a form field starts with *)
emptyString == [form |-> "empty"]

(* number | null *)
null == [kind |-> "null"]
Num(n) == [kind |-> "number", value |-> n]

(* a call either returns a value or throws *)
Return(v) == [kind |-> "return", value |-> v]
Throw(msg) == [kind |-> "throw", message |-> msg]

----------------------------------------------------------------------------
(* viem's keccak256 on a hex string: hashes the bytes the string denotes   *)
(* (the spelling of the input does not matter) and prints the digest in    *)
(* lowercase hex.                                                          *)
keccak256(value) == Hex("lower", value.root, value.depth + 1)

(* The for loops below carry their state (the counter i and the locals)   *)
(* through at most n further iterations; the loop condition is tested on   *)
(* the state before every iteration.  A run of n iterations is the run of  *)
(* its first half followed by the run of the rest, which keeps evaluation  *)
(* depth logarithmic in n.                                                 *)
Half(n) == n \div 2

(* @hashchain/sdk hashchain(seed, length), as the repository's generation  *)
(* script spells it out for 100 values:                                    *)
(*   for (i = 0; i < count; i++) { push; if (i < lastIndex) hash }         *)
RECURSIVE hashchainLoop(_, _, _, _)
hashchainLoop(st, n, count, lastIndex) ==
    IF n <= 0 \/ ~(st.i < count) THEN st
    ELSE IF n = 1 THEN
        IF st.i < lastIndex
            THEN [i |-> st.i + 1,
                  nodes |-> Append(st.nodes, st.currentValue),
                  currentValue |-> keccak256(st.currentValue),
                  calls |-> st.calls + 1]
            ELSE [i |-> st.i + 1,
                  nodes |-> Append(st.nodes, st.currentValue),
                  currentValue |-> st.currentValue,
                  calls |-> st.calls]
    ELSE hashchainLoop(hashchainLoop(st, Half(n), count, lastIndex),
                       n - Half(n), count, lastIndex)

(* the loop stops hashing one iteration too early *)
hashchain_stopsEarly(seed, length) ==
    hashchainLoop([i |-> 0, nodes |-> <<>>, currentValue |-> seed, calls |-> 0],
                  length, length, length - 2)

(* the loop runs once more than asked: length + 1 stored values *)
hashchain_oneMore(seed, length) ==
    hashchainLoop([i |-> 0, nodes |-> <<>>, currentValue |-> seed, calls |-> 0],
                  length + 1, length + 1, length)

(* the running value is kept between calls: a second chain starts from    *)
(* the last value of the chain generated before it                         *)
hashchain_carriesOn(seed, length) ==
    hashchainLoop([i |-> 0, nodes |-> <<>>,
                   currentValue |-> IF hashchainData.length > 0
                                        THEN hashchainData.trustAnchor ELSE seed,
                   calls |-> 0],
                  length, length, length - 1)

hashchain(seed, length) ==
    hashchainLoop([i |-> 0, nodes |-> <<>>, currentValue |-> seed, calls |-> 0],
                  length, length, length - 1)

(* hashes[i] of a JavaScript array: undefined outside the array *)
At(hashes, i) == IF i >= 0 /\ i < Len(hashes) THEN hashes[i + 1] ELSE undefined

(* trustAnchor read one index too low (the first token's index) *)
generateHashchain_anchorOff(length, seed, generated) ==
    IF length <= 0 THEN
        [ret |-> Throw("Hashchain length must be greater than 0"), calls |-> 0]
    ELSE
        LET seed1 == IF seed = undefined THEN generated ELSE seed
            run == hashchain(seed1, length)
            hashes == run.nodes
        IN  [ret |-> Return([seed |-> seed1,
                             trustAnchor |-> At(hashes, Len(hashes) - 2),
                             firstToken |-> At(hashes, Len(hashes) - 2),
                             length |-> Len(hashes),
                             nodes |-> hashes,
                             fullChain |-> hashes]),
             calls |-> run.calls]

(* the length check lets 0 through *)
generateHashchain_allowsZero(length, seed, generated) ==
    IF length < 0 THEN
        [ret |-> Throw("Hashchain length must be greater than 0"), calls |-> 0]
    ELSE
        LET seed1 == IF seed = undefined THEN generated ELSE seed
            run == hashchain(seed1, length)
            hashes == run.nodes
            firstToken == At(hashes, Len(hashes) - 2)
        IN  [ret |-> Return([seed |-> seed1,
                             trustAnchor |-> At(hashes, Len(hashes) - 1),
                             firstToken |-> firstToken,
                             length |-> Len(hashes),
                             nodes |-> hashes,
                             fullChain |-> hashes]),
             calls |-> run.calls]

(* the seed field holds the argument as it was passed, not the seed used *)
generateHashchain_seedAsPassed(length, seed, generated) ==
    IF length <= 0 THEN
        [ret |-> Throw("Hashchain length must be greater than 0"), calls |-> 0]
    ELSE
        LET seed1 == IF seed = undefined THEN generated ELSE seed
            run == hashchain(seed1, length)
            hashes == run.nodes
            firstToken == At(hashes, Len(hashes) - 2)
        IN  [ret |-> Return([seed |-> seed,
                             trustAnchor |-> At(hashes, Len(hashes) - 1),
                             firstToken |-> firstToken,
                             length |-> Len(hashes),
                             nodes |-> hashes,
                             fullChain |-> hashes]),
             calls |-> run.calls]

(* generateHashchain(length, seed?); generated is what generateSeed()      *)
(* returns if it is called.  calls counts the keccak256 applications.      *)
generateHashchain(length, seed, generated) ==
    IF length <= 0 THEN
        [ret |-> Throw("Hashchain length must be greater than 0"), calls |-> 0]
    ELSE
        LET seed1 == IF seed = undefined THEN generated ELSE seed
            run == hashchain(seed1, length)
            hashes == run.nodes
            firstToken == At(hashes, Len(hashes) - 2)
        IN  [ret |-> Return([seed |-> seed1,
                             trustAnchor |-> At(hashes, Len(hashes) - 1),
                             firstToken |-> firstToken,
                             length |-> Len(hashes),
                             nodes |-> hashes,
                             fullChain |-> hashes]),
             calls |-> run.calls]

(* the position used as a 0-based index *)
getHashByPosition_zeroBased(hc, position) ==
    IF position < 1 \/ position > hc.length
        THEN Throw("Position must be between 1 and length")
        ELSE Return(At(hc.fullChain, position))

(* getHashByPosition(hashchain, position), 1-based *)
getHashByPosition(hc, position) ==
    IF position < 1 \/ position > hc.length
        THEN Throw("Position must be between 1 and length")
        ELSE Return(At(hc.fullChain, position - 1))

(* one token too few for every position before the anchor *)
getTokensForPosition_oneLess(position, totalLength) ==
    IF position < 1 \/ position > totalLength
        THEN Throw("Position must be between 1 and totalLength")
    ELSE IF position = totalLength THEN Return(0)
    ELSE Return(totalLength - position - 1)

(* range check position < 0: position 0 is let through *)
getTokensForPosition_fromZero(position, totalLength) ==
    IF position < 0 \/ position > totalLength
        THEN Throw("Position must be between 1 and totalLength")
    ELSE IF position = totalLength THEN Return(0)
    ELSE Return(totalLength - position)

(* getTokensForPosition(position, totalLength) *)
getTokensForPosition(position, totalLength) ==
    IF position < 1 \/ position > totalLength
        THEN Throw("Position must be between 1 and totalLength")
    ELSE IF position = totalLength THEN Return(0)
    ELSE Return(totalLength - position)

(* Array.prototype.indexOf: the 0-based index of the first element that   *)
(* is === x, -1 when there is none                                         *)
IndexOf(array, x) ==
    IF \E i \in 1 .. Len(array) : array[i] = x
        THEN (CHOOSE i \in 1 .. Len(array) :
                  /\ array[i] = x
                  /\ \A j \in 1 .. (i - 1) : array[j] # x) - 1
        ELSE -1

(* the index of the last match *)
LastIndexOf(array, x) ==
    IF \E i \in 1 .. Len(array) : array[i] = x
        THEN (CHOOSE i \in 1 .. Len(array) :
                  /\ array[i] = x
                  /\ \A j \in (i + 1) .. Len(array) : array[j] # x) - 1
        ELSE -1

(* the index of the first element with the same bytes, whatever the spelling *)
IndexOfBytes(array, x) ==
    IF \E i \in 1 .. Len(array) : array[i].root = x.root /\ array[i].depth = x.depth
        THEN (CHOOSE i \in 1 .. Len(array) :
                  /\ array[i].root = x.root /\ array[i].depth = x.depth
                  /\ \A j \in 1 .. (i - 1) :
                         ~(array[j].root = x.root /\ array[j].depth = x.depth)) - 1
        ELSE -1

(* the search result built from a 0-based index *)
SearchResult(hc, position) ==
    IF position = -1 THEN Return([found |-> FALSE])
    ELSE IF getTokensForPosition(position + 1, hc.length).kind = "throw"
        THEN getTokensForPosition(position + 1, hc.length)
    ELSE Return([found |-> TRUE,
                 position |-> position + 1,
                 tokens |-> getTokensForPosition(position + 1, hc.length).value])

(* lastIndexOf in place of indexOf *)
searchHashInHashchain_last(hc, searchHash) ==
    SearchResult(hc, LastIndexOf(hc.fullChain, searchHash))

(* the hashes compared as bytes, not as strings *)
searchHashInHashchain_bytes(hc, searchHash) ==
    SearchResult(hc, IndexOfBytes(hc.fullChain, searchHash))

(* searchHashInHashchain(hashchain, searchHash) *)
searchHashInHashchain(hc, searchHash) ==
    SearchResult(hc, IndexOf(hc.fullChain, searchHash))

(* range check tokenNumber > totalLength: the anchor's position counts as a token *)
getPositionForToken_upToLength(tokenNumber, totalLength) ==
    IF tokenNumber < 1 \/ tokenNumber > totalLength
        THEN Throw("Token number must be between 1 and totalLength - 1")
        ELSE Return(totalLength - tokenNumber)

(* range check tokenNumber < 0: token 0 is let through *)
getPositionForToken_fromZero(tokenNumber, totalLength) ==
    IF tokenNumber < 0 \/ tokenNumber > totalLength - 1
        THEN Throw("Token number must be between 1 and totalLength - 1")
        ELSE Return(totalLength - tokenNumber)

(* the position counted from the wrong end of the 1-based range *)
getPositionForToken_offByOne(tokenNumber, totalLength) ==
    IF tokenNumber < 1 \/ tokenNumber > totalLength - 1
        THEN Throw("Token number must be between 1 and totalLength - 1")
        ELSE Return(totalLength - tokenNumber + 1)

(* getPositionForToken(tokenNumber, totalLength) *)
getPositionForToken(tokenNumber, totalLength) ==
    IF tokenNumber < 1 \/ tokenNumber > totalLength - 1
        THEN Throw("Token number must be between 1 and totalLength - 1")
        ELSE Return(totalLength - tokenNumber)

(* verifyHashchain: for (i = 0; i < numberOfHashes; i++) currentValue = keccak256(currentValue) *)
RECURSIVE verifyLoop(_, _, _)
verifyLoop(st, n, numberOfHashes) ==
    IF n <= 0 \/ ~(st.i < numberOfHashes) THEN st
    ELSE IF n = 1 THEN
        [i |-> st.i + 1, currentValue |-> keccak256(st.currentValue), calls |-> st.calls + 1]
    ELSE verifyLoop(verifyLoop(st, Half(n), numberOfHashes), n - Half(n), numberOfHashes)

(* loop condition i <= numberOfHashes: one application too many *)
verifyHashchain_inclusive(testHash, trustAnchor, numberOfHashes) ==
    LET end == verifyLoop([i |-> 0, currentValue |-> testHash, calls |-> 0],
                          numberOfHashes + 1, numberOfHashes + 1)
    IN  [ret |-> Return(end.currentValue = trustAnchor), calls |-> end.calls]

(* the final comparison made on the bytes instead of on the strings *)
verifyHashchain_bytes(testHash, trustAnchor, numberOfHashes) ==
    LET end == verifyLoop([i |-> 0, currentValue |-> testHash, calls |-> 0],
                          numberOfHashes, numberOfHashes)
    IN  [ret |-> Return(/\ end.currentValue.root = trustAnchor.root
                        /\ end.currentValue.depth = trustAnchor.depth),
         calls |-> end.calls]

(* verifyHashchain(testHash, trustAnchor, numberOfHashes) *)
verifyHashchain(testHash, trustAnchor, numberOfHashes) ==
    LET end == verifyLoop([i |-> 0, currentValue |-> testHash, calls |-> 0],
                          numberOfHashes, numberOfHashes)
    IN  [ret |-> Return(end.currentValue = trustAnchor), calls |-> end.calls]

(* return i instead of i + 1: a 0-based count *)
RECURSIVE calculateLoop_zeroBased(_, _, _, _)
calculateLoop_zeroBased(st, n, trustAnchor, maxHashes) ==
    IF n <= 0 \/ st.ret # null \/ ~(st.i < maxHashes) THEN st
    ELSE IF n = 1 THEN
        [i |-> st.i + 1,
         currentValue |-> keccak256(st.currentValue),
         calls |-> st.calls + 1,
         ret |-> IF keccak256(st.currentValue) = trustAnchor THEN Num(st.i) ELSE null]
    ELSE calculateLoop_zeroBased(calculateLoop_zeroBased(st, Half(n), trustAnchor, maxHashes),
                                 n - Half(n), trustAnchor, maxHashes)

(* calculateHashesNeeded:                                                  *)
(*   for (i = 0; i < maxHashes; i++) {                                     *)
(*     currentValue = keccak256(currentValue);                             *)
(*     if (currentValue === trustAnchor) return i + 1 }                    *)
(* st.ret is null until the function has returned.                         *)
RECURSIVE calculateLoop(_, _, _, _)
calculateLoop(st, n, trustAnchor, maxHashes) ==
    IF n <= 0 \/ st.ret # null \/ ~(st.i < maxHashes) THEN st
    ELSE IF n = 1 THEN
        [i |-> st.i + 1,
         currentValue |-> keccak256(st.currentValue),
         calls |-> st.calls + 1,
         ret |-> IF keccak256(st.currentValue) = trustAnchor THEN Num(st.i + 1) ELSE null]
    ELSE calculateLoop(calculateLoop(st, Half(n), trustAnchor, maxHashes),
                       n - Half(n), trustAnchor, maxHashes)

(* loop condition i <= maxHashes: one application too many *)
calculateHashesNeeded_inclusive(testHash, trustAnchor, maxHashes) ==
    LET end == calculateLoop([i |-> 0, currentValue |-> testHash, calls |-> 0, ret |-> null],
                             maxHashes + 1, trustAnchor, maxHashes + 1)
    IN  [ret |-> Return(end.ret), calls |-> end.calls]

(* the two hashes taken in the wrong order *)
calculateHashesNeeded_swapped(testHash, trustAnchor, maxHashes) ==
    LET end == calculateLoop([i |-> 0, currentValue |-> trustAnchor, calls |-> 0, ret |-> null],
                             maxHashes, testHash, maxHashes)
    IN  [ret |-> Return(end.ret), calls |-> end.calls]

(* testHash compared with trustAnchor before the first hash: 0 is returned *)
(* when they are the same string                                           *)
calculateHashesNeeded_countsAnchor(testHash, trustAnchor, maxHashes) ==
    IF testHash = trustAnchor THEN [ret |-> Return(Num(0)), calls |-> 0]
    ELSE LET end == calculateLoop([i |-> 0, currentValue |-> testHash, calls |-> 0, ret |-> null],
                                  maxHashes, trustAnchor, maxHashes)
         IN  [ret |-> Return(end.ret), calls |-> end.calls]

(* calculateHashesNeeded(testHash, trustAnchor, maxHashes) *)
calculateHashesNeeded(testHash, trustAnchor, maxHashes) ==
    LET end == calculateLoop([i |-> 0, currentValue |-> testHash, calls |-> 0, ret |-> null],
                             maxHashes, trustAnchor, maxHashes)
    IN  [ret |-> Return(end.ret), calls |-> end.calls]

(* Strings that are not well-formed hash values, by the way they are      *)
(* malformed:                                                              *)
(*   "noPrefix"    64 hex digits without the leading 0x                    *)
(*   "wrongPrefix" 66 characters, 64 hex digits after a prefix other than 0x *)
(*   "short"       0x and 62 hex digits                                    *)
(*   "nonHex"      0x and 64 characters, one of them not a hex digit       *)
MalformedForms == {"noPrefix", "wrongPrefix", "short", "nonHex"}

(* seed.startsWith('0x') *)
StartsWith0x(seed) == seed.form \in {"lower", "upper", "short", "nonHex"}

(* seed.length *)
StringLength(seed) ==
    IF seed.form \in {"noPrefix", "short"} THEN HashValueLength - 2 ELSE HashValueLength

(* the truthiness of seed?: string (no modelled string is empty) *)
Truthy(seed) == seed # undefined

(* errors.push(message) when the condition holds *)
PushIf(errors, condition, message) ==
    IF condition THEN Append(errors, message) ELSE errors

(* validateHashchainParams(length, seed?) *)
validateHashchainParams(length, seed) ==
    LET e1 == PushIf(<<>>, length <= 0, "Length must be greater than 0")
        e2 == PushIf(e1, length > MaxPolicyLength,
                     "Length must be less than or equal to 10000")
        e3 == PushIf(e2, Truthy(seed) /\ ~StartsWith0x(seed), "Seed must start with 0x")
        e4 == PushIf(e3, Truthy(seed) /\ StringLength(seed) # HashValueLength,
                     "Seed must be 32 bytes (0x + 64 hex characters)")
    IN  [isValid |-> Len(e4) = 0, errors |-> e4]

(* HashchainTools.handleGenerateHashchain: the toast shown and, on         *)
(* success, the chain passed to setHashchainData.  The form holds no seed; *)
(* copyToClipboard catches its own errors.                                 *)
handleGenerateHashchain(hashchainLength, generated) ==
    IF hashchainLength <= 0 THEN [toast |-> "Hashchain length must be greater than 0"]
    ELSE IF generateHashchain(hashchainLength, undefined, generated).ret.kind = "throw"
        THEN [toast |-> "Failed to generate hashchain"]
    ELSE [toast |-> "Hashchain generated successfully! Trust anchor copied to clipboard.",
          hashchainData |-> generateHashchain(hashchainLength, undefined, generated).ret.value]

(* VerifyHashchain.handleVerifyHashchain: the toast shown and the object   *)
(* passed to setVerificationResult.  Nothing is computed when a field is   *)
(* empty or numberOfHashes <= 0; hashesNeeded is never 0, so it is truthy  *)
(* exactly when it is not null.                                            *)
handleVerifyHashchain(hashToTest, trustAnchor, numberOfHashes) ==
    IF trustAnchor = emptyString \/ hashToTest = emptyString \/ numberOfHashes <= 0
        THEN [toast |-> "Please fill in all required fields"]
    ELSE
        LET hashesNeeded == calculateHashesNeeded(hashToTest, trustAnchor,
                                                  DefaultMaxHashes).ret.value
            isValid == verifyHashchain(hashToTest, trustAnchor, numberOfHashes).ret.value
            totalLength == IF hashesNeeded # null /\ hashesNeeded # Num(0)
                               THEN Num(hashesNeeded.value + numberOfHashes) ELSE null
            hashPosition == IF totalLength # null /\ totalLength # Num(0)
                                THEN Num(totalLength.value - numberOfHashes + 1) ELSE null
            tokenNumber == numberOfHashes
        IN  [toast |-> IF isValid THEN "Hashchain verification successful!"
                       ELSE "Hashchain verification failed: Hash cannot be derived",
             verificationResult |->
                 [success |-> TRUE,
                  isValid |-> isValid,
                  hashesNeeded |-> hashesNeeded,
                  totalLength |-> totalLength,
                  hashPosition |-> hashPosition,
                  tokenNumber |-> tokenNumber]]

(* HashchainTools.handleSearchToken: the toast shown and, on success, the  *)
(* hash and token count written to searchResult                            *)
handleSearchToken(hc, searchToken) ==
    IF hc.length = 0 THEN [toast |-> "Please generate a hashchain first"]
    ELSE LET maxSearchToken == hc.length - 1 IN
        IF searchToken < 1 THEN [toast |-> "Token number must be at least 1"]
        ELSE IF searchToken > maxSearchToken THEN [toast |-> "Token number cannot exceed max"]
        ELSE LET position == getPositionForToken(searchToken, hc.length) IN
            IF position.kind = "throw" THEN [toast |-> "Failed to search token"]
            ELSE LET hash == getHashByPosition(hc, position.value) IN
                IF hash.kind = "throw" THEN [toast |-> "Failed to search token"]
                ELSE [toast |-> "Found hash for token",
                      searchResult |-> [hash |-> hash.value, tokens |-> searchToken]]

----------------------------------------------------------------------------
(* State *)

NoChain == [length |-> 0]
NoCall == [op |-> "none"]

(* the screens as they are first rendered: nothing mounted, the Quick     *)
(* Hash Lookup not drawn, the Create Channel tab open, nothing in flight   *)
InitScreens ==
    /\ isMounted = FALSE
    /\ lookup = [pc |-> "idle"]
    /\ activeTab = "create"
    /\ isLoading = FALSE
    /\ isPending = FALSE
    /\ calls = {}

Init ==
    /\ hashchainData = NoChain
    /\ last = NoCall
    /\ InitScreens

Lengths == -1 .. MaxLen
Seeds == {Hex(f, r, 0) : f \in {"lower", "upper"}, r \in Roots}
GeneratedSeeds == {Hex("lower", r, 0) : r \in Roots}

(* held is the chain the caller held when it made the call *)
GenerateHashchain(length, seed, generated) ==
    LET r == generateHashchain(length, seed, generated) IN
    /\ last' = [op |-> "generateHashchain", length |-> length, seed |-> seed,
                held |-> hashchainData, ret |-> r.ret, calls |-> r.calls]
    /\ hashchainData' = IF r.ret.kind = "return" THEN r.ret.value ELSE hashchainData
    /\ UNCHANGED uiVars

(* the stored values of the chain held by the caller *)
ChainValues == {hashchainData.fullChain[k] : k \in 1 .. hashchainData.length}

(* the same bytes typed with capital hex digits *)
Upper(value) == Hex("upper", value.root, value.depth)

(* a string typed in by hand: a value deeper than any stored one, on the  *)
(* hash path of one seed and unrelated to the others                       *)
TypedHashes == {Hex("lower", NumRoots - 1, MaxDepth)}

(* the seed and the trust anchor of the caller's chain, in capitals *)
UpperEnds == {Upper(hashchainData.fullChain[k]) : k \in {1, hashchainData.length} \cap (1 .. hashchainData.length)}

(* strings a caller passes as testHash: the values of its chain, the      *)
(* capital spelling of its two ends, and a typed value                     *)
TestHashes == ChainValues \cup UpperEnds \cup TypedHashes

(* strings a caller passes as trustAnchor: the values of its chain, the   *)
(* capital spelling of its trust anchor, and a typed value                 *)
TrustAnchors == ChainValues \cup {Upper(hashchainData.fullChain[k]) : k \in {hashchainData.length} \cap (1 .. hashchainData.length)}
                    \cup TypedHashes

Counts == -1 .. MaxCount

VerifyHashchain(testHash, trustAnchor, numberOfHashes) ==
    LET r == verifyHashchain(testHash, trustAnchor, numberOfHashes) IN
    /\ last' = [op |-> "verifyHashchain", testHash |-> testHash,
                trustAnchor |-> trustAnchor, numberOfHashes |-> numberOfHashes,
                ret |-> r.ret, calls |-> r.calls]
    /\ UNCHANGED hashchainData
    /\ UNCHANGED uiVars

CalculateHashesNeeded(testHash, trustAnchor, maxHashes) ==
    LET r == calculateHashesNeeded(testHash, trustAnchor, maxHashes) IN
    /\ last' = [op |-> "calculateHashesNeeded", testHash |-> testHash,
                trustAnchor |-> trustAnchor, maxHashes |-> maxHashes,
                ret |-> r.ret, calls |-> r.calls]
    /\ UNCHANGED hashchainData
    /\ UNCHANGED uiVars

(* calculateHashesNeeded(testHash, trustAnchor): maxHashes left out *)
CalculateHashesNeededDefault(testHash, trustAnchor) ==
    CalculateHashesNeeded(testHash, trustAnchor, DefaultMaxHashes)

HandleSearchToken(searchToken) ==
    /\ last' = [op |-> "handleSearchToken", searchToken |-> searchToken,
                ret |-> handleSearchToken(hashchainData, searchToken)]
    /\ UNCHANGED hashchainData
    /\ UNCHANGED uiVars

(* positions and token numbers passed by a caller, some out of range *)
Positions == -1 .. (MaxLen + 1)

(* chain lengths passed by a caller *)
TotalLengths == 1 .. MaxLen

GetTokensForPosition(position, totalLength) ==
    /\ last' = [op |-> "getTokensForPosition", position |-> position,
                totalLength |-> totalLength,
                ret |-> getTokensForPosition(position, totalLength)]
    /\ UNCHANGED hashchainData
    /\ UNCHANGED uiVars

GetPositionForToken(tokenNumber, totalLength) ==
    /\ last' = [op |-> "getPositionForToken", tokenNumber |-> tokenNumber,
                totalLength |-> totalLength,
                ret |-> getPositionForToken(tokenNumber, totalLength)]
    /\ UNCHANGED hashchainData
    /\ UNCHANGED uiVars

GetHashByPosition(position) ==
    /\ hashchainData # NoChain
    /\ last' = [op |-> "getHashByPosition", position |-> position,
                ret |-> getHashByPosition(hashchainData, position)]
    /\ UNCHANGED hashchainData
    /\ UNCHANGED uiVars

(* a HashchainData put together by hand in which every value of the       *)
(* caller's chain is stored twice                                          *)
Repeated(hc) ==
    [hc EXCEPT !.fullChain = hc.fullChain \o hc.fullChain,
               !.nodes = hc.nodes \o hc.nodes,
               !.length = 2 * hc.length]

(* chains a caller passes to searchHashInHashchain *)
SearchedChains == {hashchainData, Repeated(hashchainData)}

(* the stored values put in reverse order in place before they are searched *)
SearchHashInHashchain_reverses(hc, searchHash) ==
    /\ hashchainData # NoChain
    /\ last' = [op |-> "searchHashInHashchain", hashchain |-> hc,
                searchHash |-> searchHash,
                ret |-> searchHashInHashchain(hc, searchHash)]
    /\ hashchainData' =
           [hashchainData EXCEPT !.fullChain =
               [i \in 1 .. hashchainData.length |->
                   hashchainData.fullChain[hashchainData.length + 1 - i]]]
    /\ UNCHANGED uiVars

SearchHashInHashchain(hc, searchHash) ==
    /\ hashchainData # NoChain
    /\ last' = [op |-> "searchHashInHashchain", hashchain |-> hc,
                searchHash |-> searchHash,
                ret |-> searchHashInHashchain(hc, searchHash)]
    /\ UNCHANGED hashchainData
    /\ UNCHANGED uiVars

Next ==
    \/ \E length \in Lengths, seed \in Seeds \cup {undefined} :
           \E generated \in IF seed = undefined THEN GeneratedSeeds ELSE {seed} :
               GenerateHashchain(length, seed, generated)
    \/ \E position \in Positions :
           GetHashByPosition(position)
    \/ \E hc \in IF hashchainData = NoChain THEN {} ELSE SearchedChains, searchHash \in TestHashes :
           SearchHashInHashchain(hc, searchHash)
    \/ \E position \in Positions, totalLength \in TotalLengths :
           GetTokensForPosition(position, totalLength)
    \/ \E tokenNumber \in Positions, totalLength \in TotalLengths :
           GetPositionForToken(tokenNumber, totalLength)
    \/ \E testHash \in TestHashes, trustAnchor \in TrustAnchors, numberOfHashes \in Counts :
           VerifyHashchain(testHash, trustAnchor, numberOfHashes)
    \/ \E testHash \in TestHashes, trustAnchor \in TrustAnchors, maxHashes \in 0 .. MaxCount :
           CalculateHashesNeeded(testHash, trustAnchor, maxHashes)
    \/ \E searchToken \in 0 .. MaxLen :
           HandleSearchToken(searchToken)

Spec == Init /\ [][Next]_vars

(* Chains searched with maxHashes left out: the short ones, and one long   *)
(* enough for the default maxHashes to fall short of its seed; the long    *)
(* one is the first chain its caller generates.                            *)
LongLength == DefaultMaxHashes + 2

(* positions at both ends of the caller's chain *)
EndPositions ==
    {1, 2, hashchainData.length - 1, hashchainData.length} \cap (1 .. hashchainData.length)

(* The Verify button is disabled while isLoading.  Past its first check   *)
(* the handler sets isLoading and clears it again when it ends.            *)
HandleVerifyHashchain(hashToTest, trustAnchor, numberOfHashes) ==
    /\ ~isLoading
    /\ last' = [op |-> "handleVerifyHashchain", hashToTest |-> hashToTest,
                trustAnchor |-> trustAnchor, numberOfHashes |-> numberOfHashes,
                ret |-> handleVerifyHashchain(hashToTest, trustAnchor, numberOfHashes)]
    /\ isLoading' = IF "verificationResult" \in DOMAIN last'.ret THEN FALSE ELSE isLoading
    /\ UNCHANGED hashchainData
    /\ UNCHANGED <<isMounted, lookup, activeTab, isPending, calls>>

(* what is typed into the Hash to Test field: a value of the caller's     *)
(* chain before its trust anchor, near one end, or nothing                 *)
TypedHashesToTest ==
    {hashchainData.fullChain[k] : k \in EndPositions \ {hashchainData.length}}
        \cup {emptyString}

NextDefault ==
    \/ /\ hashchainData # NoChain
       /\ \E hashToTest \in TypedHashesToTest, numberOfHashes \in 0 .. MaxCount :
              HandleVerifyHashchain(hashToTest, hashchainData.trustAnchor, numberOfHashes)
    \/ \E length \in Lengths, seed \in Seeds \cup {undefined} :
           \E generated \in IF seed = undefined THEN GeneratedSeeds ELSE {seed} :
               GenerateHashchain(length, seed, generated)
    \/ /\ hashchainData = NoChain
       /\ \E generated \in GeneratedSeeds :
              GenerateHashchain(LongLength, undefined, generated)
    \/ \E k \in EndPositions :
           CalculateHashesNeededDefault(hashchainData.fullChain[k], hashchainData.trustAnchor)

SpecDefault == Init /\ [][NextDefault]_vars

(* A second specification for the parameter policy: the arguments of one   *)
(* call are drawn first, then one of the operations is applied to them.    *)

(* lengths at and around the two limits *)
PolicyLengths == {-5} \cup (0 .. MaxLen) \cup {MaxPolicyLength, MaxPolicyLength + 1}

MalformedSeeds == {Hex(f, r, 0) : f \in MalformedForms, r \in Roots}

PolicySeeds == {undefined} \cup Seeds \cup MalformedSeeds

Input(length, seed) == [op |-> "input", length |-> length, seed |-> seed]

(* strings passed as testHash / trustAnchor: seeds, their first hashes and *)
(* malformed strings                                                       *)
PolicyHashes == Seeds \cup {keccak256(seed) : seed \in GeneratedSeeds} \cup MalformedSeeds

(* numberOfHashes / maxHashes of the drawn call *)
PolicyCounts == 0 .. 1

VerifyInput(testHash, trustAnchor, count) ==
    [op |-> "verifyInput", testHash |-> testHash, trustAnchor |-> trustAnchor,
     count |-> count]

InitPolicy ==
    /\ hashchainData = NoChain
    /\ InitScreens
    /\ \/ \E length \in PolicyLengths, seed \in PolicySeeds : last = Input(length, seed)
       \/ \E testHash \in PolicyHashes, trustAnchor \in PolicyHashes, count \in PolicyCounts :
              last = VerifyInput(testHash, trustAnchor, count)

ValidateHashchainParams(length, seed) ==
    /\ last' = [op |-> "validateHashchainParams", length |-> length, seed |-> seed,
                ret |-> validateHashchainParams(length, seed)]
    /\ UNCHANGED hashchainData
    /\ UNCHANGED uiVars

(* The Generate button is disabled while isLoading.  Past its first       *)
(* check the handler sets isLoading and clears it again when it ends.      *)
HandleGenerateHashchain(hashchainLength, generated) ==
    LET r == handleGenerateHashchain(hashchainLength, generated) IN
    /\ ~isLoading
    /\ last' = [op |-> "handleGenerateHashchain", length |-> hashchainLength,
                toast |-> r.toast]
    /\ hashchainData' = IF "hashchainData" \in DOMAIN r THEN r.hashchainData
                        ELSE hashchainData
    /\ isLoading' = IF hashchainLength <= 0 THEN isLoading ELSE FALSE
    /\ UNCHANGED <<isMounted, lookup, activeTab, isPending, calls>>

(* A malformed seed is passed to generateHashchain with a length at which  *)
(* no hash is taken of it; the lengths above the chains of Spec are        *)
(* generated from a seed of generateSeed().                                *)
GeneratedInputs ==
    /\ last.op = "input"
    /\ last.seed \in MalformedSeeds => last.length <= 1
    /\ last.length > MaxLen => last.seed = undefined

(* A malformed testHash is passed with a count at which no hash is taken   *)
(* of it; a malformed trustAnchor is only compared, never hashed.          *)
HashedInputs ==
    /\ last.op = "verifyInput"
    /\ last.testHash \in MalformedSeeds => last.count = 0

NextPolicy ==
    \/ /\ HashedInputs
       /\ VerifyHashchain(last.testHash, last.trustAnchor, last.count)
    \/ /\ HashedInputs
       /\ CalculateHashesNeeded(last.testHash, last.trustAnchor, last.count)
    \/ /\ GeneratedInputs
       /\ \E generated \in IF last.seed = undefined THEN GeneratedSeeds ELSE {last.seed} :
              GenerateHashchain(last.length, last.seed, generated)
    \/ /\ last.op = "input"
       /\ ValidateHashchainParams(last.length, last.seed)
    \/ /\ last.op = "input"
       /\ last.seed = undefined
       /\ \E generated \in GeneratedSeeds :
              HandleGenerateHashchain(last.length, generated)

SpecPolicy == InitPolicy /\ [][NextPolicy]_vars

----------------------------------------------------------------------------
(* The Quick Hash Lookup panel of HashchainTools.  lookup follows one      *)
(* evaluation of generateRandomTokens(hashchainData.length - 1, 7) inside  *)
(* a render of the panel:                                                  *)
(*   [pc |-> "idle"]      the panel has not been drawn                     *)
(*   [pc |-> "loop"]      inside while (tokens.size < count), with the     *)
(*                        chain length of the render and the Set tokens    *)
(*   [pc |-> "rendered"]  the function has returned and every token has    *)
(*                        been mapped to its row                           *)

(* useEffect(() => setIsMounted(true), []) *)
Mount ==
    /\ ~isMounted
    /\ isMounted' = TRUE
    /\ UNCHANGED <<hashchainData, last, lookup, activeTab, isLoading, isPending, calls>>

(* the row drawn for every token: getPositionForToken(tokenNumber, length) *)
Rows(tokens, length) == [t \in tokens |-> getPositionForToken(t, length)]

(* A render of the panel, drawn when hashchainData is set, up to the while *)
(* loop of generateRandomTokens; before the component is mounted the       *)
(* function returns [] at once.                                            *)
Render ==
    /\ hashchainData # NoChain
    /\ lookup.pc # "loop"
    /\ lookup' = IF ~isMounted
                     THEN [pc |-> "rendered", length |-> hashchainData.length,
                           tokens |-> {}, rows |-> Rows({}, hashchainData.length)]
                     ELSE [pc |-> "loop", length |-> hashchainData.length, tokens |-> {}]
    /\ UNCHANGED <<hashchainData, last, isMounted, activeTab, isLoading, isPending, calls>>

(* Math.floor(Math.random() * maxToken) + 1, Math.random() in [0, 1) *)
RandomTokens(maxToken) == IF maxToken >= 1 THEN 1 .. maxToken ELSE {1}

(* one iteration of while (tokens.size < count) tokens.add(...) *)
AddToken(token) ==
    /\ lookup.pc = "loop"
    /\ Cardinality(lookup.tokens) < QuickLookupCount
    /\ lookup' = [lookup EXCEPT !.tokens = lookup.tokens \cup {token}]
    /\ UNCHANGED <<hashchainData, last, isMounted, activeTab, isLoading, isPending, calls>>

(* the loop condition fails: the sorted tokens are returned and mapped *)
ReturnTokens ==
    /\ lookup.pc = "loop"
    /\ ~(Cardinality(lookup.tokens) < QuickLookupCount)
    /\ lookup' = [pc |-> "rendered", length |-> lookup.length, tokens |-> lookup.tokens,
                  rows |-> Rows(lookup.tokens, lookup.length)]
    /\ UNCHANGED <<hashchainData, last, isMounted, activeTab, isLoading, isPending, calls>>

(* chain lengths typed into the form: around the number of tokens drawn *)
LookupLengths == 0 .. (QuickLookupCount + 2)

(* one draw of the loop *)
Draw == \E token \in RandomTokens(lookup.length - 1) : AddToken(token)

(* No handler runs while the render is inside the loop. *)
NextLookup ==
    \/ /\ lookup.pc # "loop"
       /\ Mount
    \/ /\ lookup.pc # "loop"
       /\ \E hashchainLength \in LookupLengths, generated \in GeneratedSeeds :
              HandleGenerateHashchain(hashchainLength, generated)
    \/ Render
    \/ /\ lookup.pc = "loop"
       /\ Draw
    \/ ReturnTokens

(* The loop keeps running, and Math.random() does not avoid a token that   *)
(* is still missing for ever.                                              *)
SpecLookup ==
    /\ Init
    /\ [][NextLookup]_vars
    /\ WF_vars(lookup.pc = "loop" /\ Draw)
    /\ WF_vars(ReturnTokens)

----------------------------------------------------------------------------
(* The isLoading flag of HashChain, shared by the tabs, and the channel    *)
(* operations createChannel, redeemChannel and reclaimChannel.  calls is   *)
(* the set of operations waiting at an await; live tells whether the       *)
(* component that started the operation is still the one mounted.  Two     *)
(* waiting operations of one kind started by components since unmounted    *)
(* are not told apart.                                                     *)

Tabs == {"create", "redeem", "reclaim", "verify", "inspect", "hashchain"}

ChannelOperations == {"create", "redeem", "reclaim"}

Call(op, live) == [op |-> op, live |-> live]

(* onClick={() => setActiveTab(tab.id)}: the component of the tab left is  *)
(* unmounted, the one of the new tab starts with isPending = false         *)
SetActiveTab(tab) ==
    /\ tab # activeTab
    /\ activeTab' = tab
    /\ isPending' = FALSE
    /\ calls' = {Call(c.op, FALSE) : c \in calls}
    /\ UNCHANGED <<hashchainData, last, isMounted, lookup, isLoading>>

(* A click on the operation's button (disabled while isPending) whose run  *)
(* reaches the await of the transaction.                                   *)
StartOperation(op) ==
    /\ activeTab = op
    /\ ~isPending
    /\ isPending' = TRUE
    /\ isLoading' = TRUE
    /\ calls' = calls \cup {Call(op, TRUE)}
    /\ UNCHANGED <<hashchainData, last, isMounted, lookup, activeTab>>

(* A click whose run ends at one of the checks before the transaction:     *)
(* setIsPending(false); setIsLoading(false); return                        *)
RejectOperation(op) ==
    /\ activeTab = op
    /\ ~isPending
    /\ isPending' = FALSE
    /\ isLoading' = FALSE
    /\ UNCHANGED <<hashchainData, last, isMounted, lookup, activeTab, calls>>

(* The awaited transaction settles or fails:                               *)
(* finally { setIsPending(false); setIsLoading(false) }                    *)
(* setIsPending of an unmounted component changes nothing.                 *)
CompleteOperation(call) ==
    /\ call \in calls
    /\ calls' = calls \ {call}
    /\ isPending' = IF call.live THEN FALSE ELSE isPending
    /\ isLoading' = FALSE
    /\ UNCHANGED <<hashchainData, last, isMounted, lookup, activeTab>>

NextLoading ==
    \/ \E tab \in Tabs : SetActiveTab(tab)
    \/ \E op \in ChannelOperations : StartOperation(op)
    \/ \E op \in ChannelOperations : RejectOperation(op)
    \/ \E call \in calls : CompleteOperation(call)

SpecLoading == Init /\ [][NextLoading]_vars

----------------------------------------------------------------------------
(* Properties *)

(* the chain returned by the last call, when it was a successful generation *)
Generated == last.op = "generateHashchain" /\ last.ret.kind = "return"

(* position k (1-based) of the chain held by the caller *)
Position(k) == hashchainData.fullChain[k]

(* H applied n times, n >= 0 *)
RECURSIVE Iterate(_, _)
Iterate(value, n) == IF n <= 0 THEN value ELSE keccak256(Iterate(value, n - 1))

(* C1. Hash-link invariant: in every chain returned by generateHashchain,  *)
(* for every position i in 1 .. length-1 of the requested length, one      *)
(* application of keccak256 to the value at position i gives the value at  *)
(* position i+1.                                                           *)
C1_HashLink ==
    Generated =>
        \A i \in 1 .. (last.length - 1) :
            /\ i + 1 <= Len(last.ret.value.fullChain)
            /\ keccak256(last.ret.value.fullChain[i]) = last.ret.value.fullChain[i + 1]

(* a chain of the longest length grown from a seed typed in capitals *)
C1_Witness ==
    /\ Generated
    /\ last.length = MaxLen
    /\ last.seed # undefined
    /\ last.seed.form = "upper"
    /\ Len(last.ret.value.fullChain) = MaxLen

(* C2. Chain length invariant: every call with length >= 1 returns, and   *)
(* fullChain, nodes and the length field all have the requested length.    *)
C2_ChainLength ==
    (last.op = "generateHashchain" /\ last.length >= 1) =>
        /\ last.ret.kind = "return"
        /\ Len(last.ret.value.fullChain) = last.length
        /\ Len(last.ret.value.nodes) = last.length
        /\ last.ret.value.length = last.length

(* a chain of the shortest legal length, from a generated seed *)
C2_Witness ==
    /\ Generated
    /\ last.length = 1
    /\ last.seed = undefined
    /\ last.ret.value.length = 1

(* C3. Anchor immutability: the trust anchor is the last stored value     *)
(* (position length) and generation applies keccak256 exactly length-1     *)
(* times, so the anchor is never hashed.                                   *)
C3_AnchorLast ==
    Generated =>
        /\ Len(last.ret.value.fullChain) = last.length
        /\ last.ret.value.trustAnchor = last.ret.value.fullChain[last.length]
        /\ last.calls = last.length - 1

(* a chain of two values: one application, the anchor is the second value *)
C3_Witness ==
    /\ Generated
    /\ last.length = 2
    /\ last.calls = 1
    /\ last.ret.value.trustAnchor = keccak256(last.ret.value.seed)

(* the last call verified the value at position k of the caller's chain   *)
(* against its trust anchor with length - k hashes                         *)
VerifiedAlongChain(k) ==
    /\ last.op = "verifyHashchain"
    /\ k <= hashchainData.length
    /\ last.testHash = Position(k)
    /\ last.trustAnchor = hashchainData.trustAnchor
    /\ last.numberOfHashes = hashchainData.length - k

(* C4. Verification along the chain: for a generated chain of length L and *)
(* every position k in 1 .. L, verifyHashchain(value at k, trustAnchor,    *)
(* L - k) returns true.                                                    *)
C4_VerifyAlongChain ==
    \A k \in 1 .. hashchainData.length :
        VerifiedAlongChain(k) => last.ret = Return(TRUE)

(* the seed of a longest chain verified with MaxLen - 1 hashes *)
C4_Witness ==
    /\ hashchainData.length = MaxLen
    /\ VerifiedAlongChain(1)
    /\ last.calls = MaxLen - 1
    /\ last.ret = Return(TRUE)

(* the last call searched, with maxHashes left out, from the value at     *)
(* position k of the caller's chain to its trust anchor                    *)
SearchedAlongChain(k) ==
    /\ last.op = "calculateHashesNeeded"
    /\ last.maxHashes = DefaultMaxHashes
    /\ k <= hashchainData.length
    /\ last.testHash = Position(k)
    /\ last.trustAnchor = hashchainData.trustAnchor

(* C5, as stated. Hashes-needed along the chain: for a generated chain of  *)
(* length L and every position k in 1 .. L, the trust anchor's own         *)
(* position included, calculateHashesNeeded(value at k, trustAnchor) with  *)
(* the default maxHashes returns L - k.                                    *)
C5_HashesNeededAlongChain ==
    \A k \in 1 .. hashchainData.length :
        SearchedAlongChain(k) => last.ret = Return(Num(hashchainData.length - k))

(* C5, amended. For a generated chain of length L and every position k in  *)
(* 1 .. L, calculateHashesNeeded(value at k, trustAnchor) with the default *)
(* maxHashes returns L - k when 1 <= L - k <= 1000, and null otherwise:    *)
(* at the trust anchor's own position it returns null, never 0, and so it  *)
(* does from a position more than 1000 hashes before the anchor.           *)
C5_HashesNeededBeforeAnchor ==
    \A k \in 1 .. hashchainData.length :
        SearchedAlongChain(k) =>
            last.ret = Return(IF /\ 1 <= hashchainData.length - k
                                 /\ hashchainData.length - k <= DefaultMaxHashes
                              THEN Num(hashchainData.length - k)
                              ELSE null)

(* the farthest position the default search still reaches the anchor from *)
C5_Witness ==
    /\ hashchainData.length = LongLength
    /\ SearchedAlongChain(2)
    /\ last.calls = DefaultMaxHashes
    /\ last.ret = Return(Num(DefaultMaxHashes))

(* C6. Token-to-redemption consistency: for a chain of length L >= 2 and   *)
(* every token number t in 1 .. L-1, the hash at position                  *)
(* getPositionForToken(t, L) reaches the trust anchor after exactly t      *)
(* hashes: verifyHashchain(getHashByPosition(chain, position), anchor, t)  *)
(* is true; this holds of the hash handleSearchToken shows for a token.    *)
C6_TokenRedemption ==
    /\ \A t \in 1 .. (hashchainData.length - 1) :
           /\ getPositionForToken(t, hashchainData.length).kind = "return"
           /\ getHashByPosition(hashchainData,
                  getPositionForToken(t, hashchainData.length).value).kind = "return"
           /\ verifyHashchain(
                  getHashByPosition(hashchainData,
                      getPositionForToken(t, hashchainData.length).value).value,
                  hashchainData.trustAnchor, t).ret = Return(TRUE)
    /\ (last.op = "handleSearchToken" /\ last.ret.toast = "Found hash for token") =>
           /\ last.ret.searchResult.tokens = last.searchToken
           /\ verifyHashchain(last.ret.searchResult.hash, hashchainData.trustAnchor,
                              last.searchToken).ret = Return(TRUE)
    /\ (last.op = "handleSearchToken" /\ last.searchToken \in 1 .. (hashchainData.length - 1)) =>
           last.ret.toast = "Found hash for token"

(* the largest token of a longest chain looked up: the seed is shown *)
C6_Witness ==
    /\ hashchainData.length = MaxLen
    /\ last.op = "handleSearchToken"
    /\ last.searchToken = MaxLen - 1
    /\ last.ret.toast = "Found hash for token"
    /\ last.ret.searchResult.hash = hashchainData.seed

(* C7. verifyHashchain(testHash, trustAnchor, n), n >= 0, applies          *)
(* keccak256 to testHash exactly n times and returns true if and only if   *)
(* the result is the string trustAnchor; with n = 0 nothing is hashed and  *)
(* the result is true iff testHash is trustAnchor.                         *)
C7_VerifyExact ==
    (last.op = "verifyHashchain" /\ last.numberOfHashes >= 0) =>
        /\ last.calls = last.numberOfHashes
        /\ last.ret = Return(Iterate(last.testHash, last.numberOfHashes) = last.trustAnchor)
        /\ last.numberOfHashes = 0 => last.ret = Return(last.testHash = last.trustAnchor)

(* the anchor verified against itself with no hash applied *)
C7_Witness ==
    /\ last.op = "verifyHashchain"
    /\ last.numberOfHashes = 0
    /\ last.calls = 0
    /\ last.testHash = last.trustAnchor
    /\ last.ret = Return(TRUE)

(* C8. verifyHashchain called with a negative numberOfHashes throws        *)
(* (InvalidParameter) instead of returning a boolean.                      *)
C8_NegativeThrows ==
    (last.op = "verifyHashchain" /\ last.numberOfHashes < 0) => last.ret.kind = "throw"

(* the counts j in 1 .. m at which hashing testHash produces trustAnchor *)
Hits(testHash, trustAnchor, m) == {j \in 1 .. m : Iterate(testHash, j) = trustAnchor}

Least(S) == CHOOSE j \in S : \A i \in S : j <= i

(* C9. calculateHashesNeeded(testHash, trustAnchor, maxHashes) returns the *)
(* smallest 1-based count of applications at which the trust anchor is     *)
(* produced, returns null exactly when it is not produced within maxHashes *)
(* applications, and never applies keccak256 more than maxHashes times.    *)
C9_FirstHit ==
    last.op = "calculateHashesNeeded" =>
        /\ last.ret.kind = "return"
        /\ last.calls <= last.maxHashes
        /\ (last.ret.value = null) <=> (Hits(last.testHash, last.trustAnchor, last.maxHashes) = {})
        /\ (last.ret.value # null) =>
               /\ last.ret.value = Num(Least(Hits(last.testHash, last.trustAnchor, last.maxHashes)))
               /\ last.calls = last.ret.value.value

(* the anchor found after two applications, with applications to spare *)
C9_Witness ==
    /\ last.op = "calculateHashesNeeded"
    /\ last.maxHashes = MaxCount
    /\ last.ret = Return(Num(2))
    /\ last.calls = 2

(* C10. One-way search: for positions i < j of a generated chain,          *)
(* calculateHashesNeeded(value at j, value at i, maxHashes) returns null   *)
(* for every maxHashes, and calculateHashesNeeded(value at i, value at j,  *)
(* maxHashes) returns j - i whenever j - i <= maxHashes.                   *)
C10_OneWay ==
    \A i, j \in 1 .. hashchainData.length :
        (i < j /\ last.op = "calculateHashesNeeded") =>
            /\ (last.testHash = Position(j) /\ last.trustAnchor = Position(i)) =>
                   last.ret = Return(null)
            /\ (/\ last.testHash = Position(i)
                /\ last.trustAnchor = Position(j)
                /\ j - i <= last.maxHashes) =>
                   last.ret = Return(Num(j - i))

(* the seed searched for from the anchor of a longest chain: every one of  *)
(* the allowed applications is spent and nothing is found                  *)
C10_Witness ==
    /\ hashchainData.length = MaxLen
    /\ last.op = "calculateHashesNeeded"
    /\ last.testHash = Position(MaxLen)
    /\ last.trustAnchor = Position(1)
    /\ last.maxHashes = MaxCount
    /\ last.calls = MaxCount
    /\ last.ret = Return(null)

(* C11. Token/position round trip: for every L >= 2,                       *)
(* getTokensForPosition(getPositionForToken(t, L), L) = t for every t in   *)
(* 1 .. L-1, and getPositionForToken(getTokensForPosition(p, L), L) = p    *)
(* for every position p in 1 .. L-1; neither call throws on these inputs.  *)
C11_RoundTrip ==
    /\ (/\ last.op = "getPositionForToken"
        /\ last.tokenNumber \in 1 .. (last.totalLength - 1)) =>
           /\ last.ret.kind = "return"
           /\ getTokensForPosition(last.ret.value, last.totalLength) = Return(last.tokenNumber)
    /\ (/\ last.op = "getTokensForPosition"
        /\ last.position \in 1 .. (last.totalLength - 1)) =>
           /\ last.ret.kind = "return"
           /\ getPositionForToken(last.ret.value, last.totalLength) = Return(last.position)

(* the position of the first token of a longest chain, mapped back to 1 *)
C11_Witness ==
    /\ last.op = "getPositionForToken"
    /\ last.totalLength = MaxLen
    /\ last.tokenNumber = 1
    /\ last.ret = Return(MaxLen - 1)
    /\ getTokensForPosition(MaxLen - 1, MaxLen) = Return(1)

(* C12. getTokensForPosition(position, totalLength) throws unless          *)
(* 1 <= position <= totalLength; otherwise it returns 0 when position is   *)
(* totalLength and totalLength - position for every other position:        *)
(* position 1 gives L-1, position L-1 gives 1, position L gives 0.         *)
C12_TokensForPosition ==
    last.op = "getTokensForPosition" =>
        /\ (last.ret.kind = "throw") <=>
               ~(1 <= last.position /\ last.position <= last.totalLength)
        /\ (last.ret.kind = "return" /\ last.position = last.totalLength) =>
               last.ret.value = 0
        /\ (last.ret.kind = "return" /\ last.position # last.totalLength) =>
               last.ret.value = last.totalLength - last.position
        /\ last.position = 1 => last.ret = Return(last.totalLength - 1)
        /\ (last.position = last.totalLength - 1 /\ last.totalLength >= 2) =>
               last.ret = Return(1)
        /\ last.position = last.totalLength => last.ret = Return(0)

(* the seed's position of a longest chain is worth MaxLen - 1 tokens *)
C12_Witness ==
    /\ last.op = "getTokensForPosition"
    /\ last.totalLength = MaxLen
    /\ last.position = 1
    /\ last.ret = Return(MaxLen - 1)

(* C13. getPositionForToken(tokenNumber, totalLength) throws unless        *)
(* 1 <= tokenNumber <= totalLength - 1 (token 0 and token totalLength are  *)
(* both rejected); otherwise it returns totalLength - tokenNumber, a       *)
(* position in 1 .. totalLength-1, never the trust anchor's.               *)
C13_PositionForToken ==
    last.op = "getPositionForToken" =>
        /\ (last.ret.kind = "throw") <=>
               ~(1 <= last.tokenNumber /\ last.tokenNumber <= last.totalLength - 1)
        /\ last.ret.kind = "return" =>
               /\ last.ret.value = last.totalLength - last.tokenNumber
               /\ last.ret.value \in 1 .. (last.totalLength - 1)
               /\ last.ret.value # last.totalLength
        /\ last.tokenNumber \in {0, last.totalLength} => last.ret.kind = "throw"

(* token totalLength of a longest chain is rejected *)
C13_Witness ==
    /\ last.op = "getPositionForToken"
    /\ last.totalLength = MaxLen
    /\ last.tokenNumber = MaxLen
    /\ last.ret.kind = "throw"

(* C14. Degenerate chain: with totalLength = 1 there is no valid token     *)
(* number, getPositionForToken(t, 1) throws for every integer t, while     *)
(* getTokensForPosition(1, 1) returns 0.                                   *)
C14_DegenerateChain ==
    /\ (last.op = "getPositionForToken" /\ last.totalLength = 1) =>
           last.ret.kind = "throw"
    /\ (last.op = "getTokensForPosition" /\ last.totalLength = 1 /\ last.position = 1) =>
           last.ret = Return(0)

(* token 1 asked of a chain that is only its anchor *)
C14_Witness ==
    /\ last.op = "getPositionForToken"
    /\ last.totalLength = 1
    /\ last.tokenNumber = 1
    /\ last.ret.kind = "throw"

(* C15. getHashByPosition(chain, position) throws unless                   *)
(* 1 <= position <= chain.length, and otherwise returns the stored value   *)
(* at 0-based index position-1; position 1 returns the seed and position   *)
(* chain.length returns the trust anchor.                                  *)
C15_HashByPosition ==
    last.op = "getHashByPosition" =>
        /\ (last.ret.kind = "throw") <=>
               ~(1 <= last.position /\ last.position <= hashchainData.length)
        /\ last.ret.kind = "return" =>
               last.ret.value = hashchainData.fullChain[(last.position - 1) + 1]
        /\ last.position = 1 => last.ret = Return(hashchainData.seed)
        /\ last.position = hashchainData.length =>
               last.ret = Return(hashchainData.trustAnchor)

(* the last position of a longest chain read: the trust anchor, not the seed *)
C15_Witness ==
    /\ last.op = "getHashByPosition"
    /\ hashchainData.length = MaxLen
    /\ last.position = MaxLen
    /\ last.ret = Return(hashchainData.trustAnchor)
    /\ last.ret.value # hashchainData.seed

(* C16. Search hit: for a generated chain of length L and every position k *)
(* in 1 .. L, searchHashInHashchain(chain, value at k) returns found =     *)
(* true, position = k and tokens = getTokensForPosition(k, L); when the    *)
(* target is stored more than once the lowest matching position is         *)
(* reported.                                                               *)
C16_SearchHit ==
    last.op = "searchHashInHashchain" =>
        /\ \A k \in 1 .. hashchainData.length :
               (last.hashchain = hashchainData /\ last.searchHash = Position(k)) =>
                   last.ret = Return([found |-> TRUE, position |-> k,
                                      tokens |-> getTokensForPosition(k, hashchainData.length).value])
        /\ \A k \in 1 .. Len(last.hashchain.fullChain) :
               last.hashchain.fullChain[k] = last.searchHash =>
                   /\ last.ret.kind = "return"
                   /\ last.ret.value.found
                   /\ last.ret.value.position <= k
                   /\ last.hashchain.fullChain[last.ret.value.position] = last.searchHash
                   /\ last.ret.value.tokens =
                          getTokensForPosition(last.ret.value.position, last.hashchain.length).value

(* the anchor of a longest chain searched for in a chain that stores every *)
(* value twice: found at its first place, not at its second                *)
C16_Witness ==
    /\ last.op = "searchHashInHashchain"
    /\ hashchainData.length = MaxLen
    /\ last.hashchain = Repeated(hashchainData)
    /\ last.searchHash = hashchainData.trustAnchor
    /\ last.ret = Return([found |-> TRUE, position |-> MaxLen, tokens |-> MaxLen])

(* C17. Search miss: for a target equal to no stored value,                *)
(* searchHashInHashchain returns found = false with neither position nor   *)
(* tokens, and does not throw.                                             *)
C17_SearchMiss ==
    (/\ last.op = "searchHashInHashchain"
     /\ \A k \in 1 .. Len(last.hashchain.fullChain) :
            last.hashchain.fullChain[k] # last.searchHash) =>
        /\ last.ret.kind = "return"
        /\ DOMAIN last.ret.value = {"found"}
        /\ ~last.ret.value.found

(* the seed typed in capitals and searched for in a chain that stores it   *)
(* in lowercase                                                            *)
C17_Witness ==
    /\ last.op = "searchHashInHashchain"
    /\ last.hashchain = hashchainData
    /\ hashchainData.seed.form = "lower"
    /\ last.searchHash = Upper(hashchainData.seed)
    /\ last.ret = Return([found |-> FALSE])

(* C18. generateHashchain fails with an error, returning no chain and      *)
(* taking no hash, for every non-positive length (0 and negative values).  *)
C18_NonPositiveLength ==
    (last.op = "generateHashchain" /\ last.length <= 0) =>
        /\ last.ret = Throw("Hashchain length must be greater than 0")
        /\ last.calls = 0

(* length 0 refused while the caller holds a chain from an earlier call *)
C18_Witness ==
    /\ last.op = "generateHashchain"
    /\ last.length = 0
    /\ last.ret.kind = "throw"
    /\ hashchainData.length = MaxLen

(* C19. generateHashchain fails with an error for every length above the   *)
(* policy bound of 10000: no chain longer than 10000 values is ever        *)
(* produced, including when generation is triggered from the Hashchain     *)
(* Tools screen.                                                           *)
C19_PolicyBound ==
    /\ (last.op = "generateHashchain" /\ last.length > MaxPolicyLength) =>
           last.ret.kind = "throw"
    /\ (last.op = "handleGenerateHashchain" /\ last.length > MaxPolicyLength) =>
           last.toast \in {"Hashchain length must be greater than 0",
                           "Failed to generate hashchain"}
    /\ hashchainData.length <= MaxPolicyLength

(* C20. A supplied seed that is not a well-formed hash value (wrong        *)
(* prefix, wrong length, or non-hex characters after 0x) is rejected:      *)
(* generateHashchain fails with an error and validateHashchainParams       *)
(* reports isValid = false with a non-empty error list.                    *)
C20_MalformedSeedRejected ==
    /\ (last.op = "generateHashchain" /\ last.seed \in MalformedSeeds) =>
           last.ret.kind = "throw"
    /\ (last.op = "validateHashchainParams" /\ last.seed \in MalformedSeeds) =>
           /\ ~last.ret.isValid
           /\ Len(last.ret.errors) > 0

(* C21. verifyHashchain and calculateHashesNeeded fail with an error,      *)
(* before any hashing and without returning a result, when testHash or     *)
(* trustAnchor is not a well-formed hash value; a malformed input never    *)
(* yields a plain true / false / not-found answer.                         *)
C21_MalformedHashRejected ==
    (/\ last.op \in {"verifyHashchain", "calculateHashesNeeded"}
     /\ (last.testHash \in MalformedSeeds \/ last.trustAnchor \in MalformedSeeds)) =>
        /\ last.ret.kind = "throw"
        /\ last.calls = 0

(* C22. The seed exposed by generateHashchain is the value stored at       *)
(* position 1 of the returned chain, both when the caller supplies the     *)
(* seed and when it is generated randomly.                                 *)
C22_SeedFirst ==
    Generated =>
        /\ last.ret.value.seed = last.ret.value.fullChain[1]
        /\ getHashByPosition(last.ret.value, 1) = Return(last.ret.value.seed)
        /\ last.seed # undefined => last.ret.value.seed = last.seed

(* a longest chain grown from a seed the caller did not supply *)
C22_Witness ==
    /\ Generated
    /\ last.seed = undefined
    /\ last.length = MaxLen
    /\ last.ret.value.seed \in GeneratedSeeds
    /\ last.ret.value.fullChain[1] = last.ret.value.seed

(* the last call asked again for the chain the caller already held: the   *)
(* same length and, supplied, the same seed                                *)
Regenerated ==
    /\ Generated
    /\ last.seed # undefined
    /\ last.held.length = last.length
    /\ last.held.seed = last.seed

C25_FirstToken ==
    Generated =>
        /\ getPositionForToken(1, last.ret.value.length).kind = "return"
        /\ getHashByPosition(last.ret.value,
               getPositionForToken(1, last.ret.value.length).value)
             = Return(last.ret.value.firstToken)
        /\ last.ret.value.firstToken = last.ret.value.fullChain[last.ret.value.length - 1]
        /\ keccak256(last.ret.value.firstToken) = last.ret.value.trustAnchor

(* C27. verifyHashchain and calculateHashesNeeded agree: if                *)
(* calculateHashesNeeded(h, a, m) returns n then 1 <= n <= m,              *)
(* verifyHashchain(h, a, n) is true and verifyHashchain(h, a, j) is false  *)
(* for every 1 <= j < n; if it returns null then verifyHashchain(h, a, j)  *)
(* is false for every 1 <= j <= m.  calculateHashesNeeded never returns 0, *)
(* even when h equals a.                                                   *)
C27_VerifyAgrees ==
    last.op = "calculateHashesNeeded" =>
        /\ last.ret.kind = "return"
        /\ last.ret.value # Num(0)
        /\ last.ret.value # null =>
               /\ 1 <= last.ret.value.value
               /\ last.ret.value.value <= last.maxHashes
               /\ verifyHashchain(last.testHash, last.trustAnchor,
                                  last.ret.value.value).ret = Return(TRUE)
               /\ \A j \in 1 .. (last.ret.value.value - 1) :
                      verifyHashchain(last.testHash, last.trustAnchor, j).ret = Return(FALSE)
        /\ last.ret.value = null =>
               \A j \in 1 .. last.maxHashes :
                   verifyHashchain(last.testHash, last.trustAnchor, j).ret = Return(FALSE)

(* the trust anchor searched for from itself: null, not 0, although        *)
(* verifyHashchain with no hash at all is true                             *)
C27_Witness ==
    /\ last.op = "calculateHashesNeeded"
    /\ hashchainData.length = MaxLen
    /\ last.testHash = hashchainData.trustAnchor
    /\ last.trustAnchor = hashchainData.trustAnchor
    /\ last.maxHashes = MaxCount
    /\ last.ret = Return(null)
    /\ verifyHashchain(last.testHash, last.trustAnchor, 0).ret = Return(TRUE)

(* C24. Immutability: after a chain is generated, no getHashByPosition,    *)
(* getTokensForPosition, getPositionForToken, searchHashInHashchain,       *)
(* verifyHashchain or calculateHashesNeeded call, successful or failing,   *)
(* changes its seed, trustAnchor, length or any stored value.              *)
C24_Immutable ==
    [][last'.op \in {"getHashByPosition", "getTokensForPosition", "getPositionForToken",
                     "searchHashInHashchain", "verifyHashchain", "calculateHashesNeeded"}
          => hashchainData' = hashchainData]_vars

(* a longest chain after a search that found its seed: still the chain     *)
(* generation returns for its seed                                         *)
C24_Witness ==
    /\ last.op = "searchHashInHashchain"
    /\ last.hashchain = hashchainData
    /\ last.searchHash = hashchainData.seed
    /\ last.ret.value.found
    /\ hashchainData.length = MaxLen
    /\ hashchainData =
           generateHashchain(MaxLen, hashchainData.seed, hashchainData.seed).ret.value

(* C26. The position and token number the verification screen derives from *)
(* a verification call agree with the authoritative mapping: whenever      *)
(* handleVerifyHashchain reports a non-null totalLength and hashPosition,  *)
(* its tokenNumber equals getTokensForPosition(hashPosition, totalLength). *)
C26_ScreenAgrees ==
    (/\ last.op = "handleVerifyHashchain"
     /\ "verificationResult" \in DOMAIN last.ret
     /\ last.ret.verificationResult.totalLength # null
     /\ last.ret.verificationResult.hashPosition # null) =>
        getTokensForPosition(last.ret.verificationResult.hashPosition.value,
                             last.ret.verificationResult.totalLength.value)
          = Return(last.ret.verificationResult.tokenNumber)

(* C28. Quick Hash Lookup terminates for every generated chain: once       *)
(* mounted, generateRandomTokens(length - 1, 7) terminates for every chain *)
(* length >= 1 and returns only token numbers in 1 .. length-1, so that    *)
(* the getPositionForToken call that follows never fails during rendering. *)
C28_LookupTerminates ==
    /\ [](lookup.pc = "rendered" =>
             /\ lookup.tokens \subseteq 1 .. (lookup.length - 1)
             /\ \A t \in lookup.tokens : lookup.rows[t].kind = "return")
    /\ (lookup.pc = "loop") ~> (lookup.pc = "rendered")

(* C29. The isLoading flag shared by all HashChain tabs is true whenever   *)
(* at least one channel operation (create, redeem or reclaim) is still in  *)
(* flight: under any interleaving of operations started from different     *)
(* tabs, the completion of one operation never sets isLoading to false     *)
(* while another operation is still pending.                               *)
C29_LoadingWhilePending ==
    calls # {} => isLoading

====
